---- MODULE Spec2Model ----
(***************************************************************************)
(* Task store, assignment records and audit trail of the todo backend:     *)
(* TaskService, TaskAssignmentService, TaskRepository and TaskListView.    *)
(*                                                                         *)
(* Object ids are modelled by value (a task id is a number, a user or team *)
(* id a string); timestamps are points of a small integer clock.  Fields   *)
(* of the documents that no modelled operation reads or writes             *)
(* (description, labels, isAcknowledged, the created_by / updated_by of an *)
(* assignment record) are not represented.                                 *)
(***************************************************************************)
EXTENDS Integers, FiniteSets, Sequences, Bags, TLC

VARIABLES
    tasks,        \* the task collection: task id -> task document
    assignments,  \* the task-assignment collection: a bag of assignment records
    audit,        \* the audit-log collection, in insertion order
    now,          \* the clock read by datetime.now(timezone.utc)
    teams,        \* the team collection and its memberships (fixed after Init)
    pend,         \* create_task_assignment calls between their read and their write
    resp,         \* the outcome of the last call
    counter,      \* seq of the counters document "taskDisplayId" (NoCounter: no document)
    txn,          \* the transactions of TaskRepository.create calls in progress
    postgres,     \* the secondary store: task id -> the row last written
    postgres_up   \* whether writes to the secondary store succeed

vars == <<tasks, assignments, audit, now, teams, pend, resp, counter, txn,
          postgres, postgres_up>>
store == <<tasks, assignments, audit>>

----------------------------------------------------------------------------
(* Bounds of the model *)

MaxTasks == 2
MaxAssignments == 2
MaxAudit == 2
MaxTime == 3
MaxPending == 2
AccessTasks == 1
QueryTasks == 1
CreateTasks == 3
DualWriteTasks == 1
DeferTasks == 1
AssigneeTasks == 2
ListTasks == 2
MaxPage == 3
MAX_LIMIT == 2
StatusTasks == 1
AuditTasks == 1
CreateTaskTasks == 2
UpdateTasks == 1

----------------------------------------------------------------------------
(* Identifiers and enumerations *)

NoId == "none"
NoTime == 0
NoTask == 0
NoCounter == 0
BadId == -1                      \* a task id that is no ObjectId
Ghost == "ghost"                 \* a well-formed id of no stored user or team
Users == {"u1", "u2"}
Teams == {"tA", "tB"}
TaskIds == 1..MaxTasks
Times == 1..MaxTime

TODO == "TODO"
IN_PROGRESS == "IN_PROGRESS"
DONE == "DONE"
DEFERRED == "DEFERRED"
TaskStatus == {TODO, IN_PROGRESS, DEFERRED, DONE}

NoAssignee == [assignee_id |-> NoId, user_type |-> NoId, team_id |-> NoId]

\* TaskPriority: the values stored in the priority field
HIGH == 1
MEDIUM == 2
LOW == 3

SORT_FIELD_PRIORITY == "priority"
SORT_FIELD_DUE_AT == "dueAt"
SORT_FIELD_CREATED_AT == "createdAt"
SORT_FIELD_UPDATED_AT == "updatedAt"
SORT_FIELD_ASSIGNEE == "assignee"
SORT_ORDER_ASC == "asc"
SORT_ORDER_DESC == "desc"

----------------------------------------------------------------------------
(* Collaborators whose code is outside the modelled files *)

\* UserRepository.get_by_id(id) is not None
UserExists(id) == id \in Users

\* TeamRepository.get_by_id(id) is not None
TeamExists(id) == id \in Teams

\* UserTeamDetailsRepository.get_by_user_id: the teams the user is a member of
UserTeams(u) == {tm \in Teams : u \in teams[tm].members}

\* TeamRepository.is_user_team_member
is_user_team_member(tm, u) == tm \in Teams /\ u \in teams[tm].members

\* UserTeamDetailsRepository.get_users_by_team_id
get_users_by_team_id(tm) == IF tm \in Teams THEN teams[tm].members ELSE {}

\* The team collections the model starts from: in both, u1 is member and POC
\* of the live team tA and u2 a plain member of it; tB is either a deleted
\* team whose member u2 is its POC, or a live team whose POC u1 is no member.
TeamFixtures ==
    { [tA |-> [members |-> {"u1", "u2"}, poc_id |-> "u1", is_deleted |-> FALSE],
       tB |-> [members |-> {"u2"}, poc_id |-> "u2", is_deleted |-> TRUE]],
      [tA |-> [members |-> {"u1", "u2"}, poc_id |-> "u1", is_deleted |-> FALSE],
       tB |-> [members |-> {"u2"}, poc_id |-> "u1", is_deleted |-> FALSE]] }

----------------------------------------------------------------------------
(* TaskAssignmentRepository: the assignment collection *)

\* the sub-bag of the records satisfying P
BagFilter(B, P(_)) == [r \in {x \in BagToSet(B) : P(x)} |-> B[r]]

Deactivated(r) == [r EXCEPT !.is_active = FALSE]

\* find_one({task_id, is_active: True}): the records it may return
get_by_task_id(asg, t) ==
    {r \in BagToSet(asg) : r.task_id = t /\ r.is_active}

\* find({assignee_id, user_type, is_active: True})
get_by_assignee_id(asg, a, ut) ==
    {r \in BagToSet(asg) : r.assignee_id = a /\ r.user_type = ut /\ r.is_active}

\* insert_one of a record, active by default
AssignmentCreate(asg, rec) == asg (+) SetToBag({rec})

\* update_many({task_id, is_active: True}, {$set: {is_active: False}})
deactivate_by_task_id(asg, t) ==
    LET hit(r) == r.task_id = t /\ r.is_active
        kept == BagFilter(asg, LAMBDA r : ~hit(r))
        gone == {r \in BagToSet(asg) : hit(r)}
        moved == [r \in {Deactivated(x) : x \in gone} |->
                     asg[[r EXCEPT !.is_active = TRUE]]]
    IN  kept (+) moved

NewAssignment(t, a, ut, tm) ==
    [task_id |-> t, assignee_id |-> a, user_type |-> ut, team_id |-> tm,
     is_active |-> TRUE]

\* update_assignment(task_id, assignee_id, user_type, user_id): the active
\* records of the task are deactivated and a new active record is inserted
update_assignment(asg, t, a, ut) ==
    AssignmentCreate(deactivate_by_task_id(asg, t), NewAssignment(t, a, ut, NoId))

\* update_assignee(task_id, assignee_id, user_type, user_id)
update_assignee(asg, t, a, ut) == update_assignment(asg, t, a, ut)

\* number of active assignment records of task t
ActiveCount(asg, t) ==
    BagCardinality(BagFilter(asg, LAMBDA r : r.task_id = t /\ r.is_active))

----------------------------------------------------------------------------
(* TaskRepository: queries *)

NoDeferral == [deferredAt |-> NoTime, deferredTill |-> NoTime, deferredBy |-> NoId]

\* tasks_collection.find_one({"_id": task_id}): deleted tasks are found too
get_by_id(tk, t) == IF t \in DOMAIN tk THEN {tk[t]} ELSE {}

HasTask(tk, t) == t \in DOMAIN tk

\* (variant: the default filter looks at the status only)
_build_status_filter_StatusOnly(sf, d, nw) ==
    IF sf = DEFERRED
    THEN d.deferredDetails # NoDeferral /\ d.deferredDetails.deferredTill > nw
    ELSE IF sf = DONE
    THEN d.deferredDetails = NoDeferral \/ d.deferredDetails.deferredTill < nw
    ELSE d.status # DONE

\* the predicate built by _build_status_filter(status_filter), applied to
\* the document d at time nw
_build_status_filter(sf, d, nw) ==
    IF sf = DEFERRED
    THEN /\ d.deferredDetails # NoDeferral
         /\ d.deferredDetails.deferredTill > nw
    ELSE IF sf = DONE
    THEN \/ d.deferredDetails = NoDeferral
         \/ (d.deferredDetails # NoDeferral /\ d.deferredDetails.deferredTill < nw)
    ELSE /\ d.status # DONE
         /\ \/ d.deferredDetails = NoDeferral
            \/ (d.deferredDetails # NoDeferral /\ d.deferredDetails.deferredTill < nw)

_get_team_task_ids(asg, tm) ==
    {r.task_id : r \in {x \in BagToSet(asg) : x.team_id = tm /\ x.is_active}}

_get_task_ids_for_assignees(asg, aids, tm) ==
    IF aids = {} THEN {}
    ELSE {r.task_id : r \in {x \in BagToSet(asg) :
                                /\ x.assignee_id \in aids
                                /\ x.user_type = "user"
                                /\ x.is_active
                                /\ (tm # NoId => x.team_id = tm)}}

\* (variant: every live team of the user counts, POC or not)
PocTeams_AnyMember(u) == {tm \in UserTeams(u) : ~teams[tm].is_deleted}

\* the teams of which the user is a member, that are not deleted and whose
\* POC the user is
PocTeams(u) ==
    {tm \in UserTeams(u) : ~teams[tm].is_deleted /\ teams[tm].poc_id = u}

_get_assigned_task_ids_for_user(asg, u) ==
    LET direct_task_ids == {r.task_id : r \in get_by_assignee_id(asg, u, "user")}
        poc_team_ids == PocTeams(u)
        team_task_ids ==
            {r.task_id : r \in {x \in BagToSet(asg) :
                                   /\ x.assignee_id \in poc_team_ids
                                   /\ x.user_type = "team"
                                   /\ x.is_active}}
    IN  direct_task_ids \cup team_task_ids

\* (variant: the team scope never switches the user filter off)
team_scope_applied_Never(tm, aids) == FALSE

\* team_scope_applied of list / count
team_scope_applied(tm, aids) == tm # NoId

\* the ids of the tasks matched by the query_filter that list and count
\* build (list returns them page by page, count counts them)
MatchingTasks(tk, asg, nw, u, tm, sf, aids) ==
    LET base == {t \in DOMAIN tk : _build_status_filter(sf, tk[t], nw)}
        assigned == _get_assigned_task_ids_for_user(asg, u)
        user_ok(t) ==
            (u # NoId /\ ~team_scope_applied(tm, aids))
                => (tk[t].createdBy = u \/ t \in assigned)
    IN  IF aids # {}
        THEN {t \in base : t \in _get_task_ids_for_assignees(asg, aids, tm) /\ user_ok(t)}
        ELSE IF tm # NoId
        THEN {t \in base : t \in _get_team_task_ids(asg, tm) /\ user_ok(t)}
        ELSE {t \in base : user_ok(t)}

\* the helpers list / count consult and whether they reach the find on the
\* task collection
ListCalls(asg, u, tm, aids) ==
    LET user_part == IF u # NoId /\ ~team_scope_applied(tm, aids)
                     THEN {"_get_assigned_task_ids_for_user"} ELSE {}
    IN  IF aids # {}
        THEN {"_get_task_ids_for_assignees"}
                 \cup (IF _get_task_ids_for_assignees(asg, aids, tm) = {} THEN {}
                       ELSE user_part \cup {"find"})
        ELSE IF tm # NoId
        THEN {"_get_team_task_ids"}
                 \cup (IF _get_team_task_ids(asg, tm) = {} THEN {}
                       ELSE user_part \cup {"find"})
        ELSE user_part \cup {"find"}

count(tk, asg, nw, u, tm, sf, aids) ==
    Cardinality(MatchingTasks(tk, asg, nw, u, tm, sf, aids))

\* the permission check shared by the update, defer and delete operations:
\* the creator, or a user with the task among _get_assigned_task_ids_for_user
Permitted(tk, asg, t, u) ==
    \/ tk[t].createdBy = u
    \/ t \in _get_assigned_task_ids_for_user(asg, u)

----------------------------------------------------------------------------
(* TaskRepository: writes *)

\* an update_data / $set dictionary: a function from field names to values
NoData == [f \in {} |-> NoId]
Field(f, v) == f :> v

\* find_one_and_update({"_id": id}, {"$set": data}) on document d
ApplySet(d, data) == [f \in DOMAIN d |-> IF f \in DOMAIN data THEN data[f] ELSE d[f]]

\* TaskRepository.create: the new document gets the next id
TaskCreate(tk, doc) ==
    tk @@ ((Cardinality(DOMAIN tk) + 1) :> [doc EXCEPT !.updatedAt = NoTime])

\* (variant: "_id" and "id" stay in the payload)
UpdatePayload_KeepsId(update_data, nw) == Field("updatedAt", nw) @@ update_data

\* TaskRepository.update: the $set payload is update_data stamped with
\* updatedAt, without "_id" and "id"
UpdatePayload(update_data, nw) ==
    LET stamped == Field("updatedAt", nw) @@ update_data
    IN  [f \in (DOMAIN stamped) \ {"_id", "id"} |-> stamped[f]]

TaskUpdate(tk, t, update_data, nw) ==
    [tk EXCEPT ![t] = ApplySet(tk[t], UpdatePayload(update_data, nw))]

\* the number TaskRepository.create takes from the counter: the seq after
\* the $inc, or 1 with a new counter document when there is none
NextNumber(c) == IF c = NoCounter THEN 1 ELSE c + 1

\* f"#{next_number}"
DisplayId(n) == <<"#", n>>

\* the task_data handed to the dual-write service
task_data(doc) == [f \in (DOMAIN doc) \ {"deferredDetails"} |-> doc[f]]

\* EnhancedDualWriteService.create_document: the row is written unless the
\* secondary store fails, and then False is returned
create_document(pg, t, doc) ==
    IF postgres_up
    THEN (t :> [data |-> task_data(doc), deferred |-> NoDeferral]) @@ pg
    ELSE pg

\* EnhancedDualWriteService.update_document
update_document(pg, t, doc) ==
    IF postgres_up
    THEN (t :> [data |-> task_data(doc),
                deferred |-> IF t \in DOMAIN pg THEN pg[t].deferred ELSE NoDeferral])
             @@ pg
    ELSE pg

\* _handle_deferred_details_sync: a failure is logged and swallowed
_handle_deferred_details_sync(pg, t, deferred_details) ==
    IF postgres_up /\ t \in DOMAIN pg
    THEN [pg EXCEPT ![t].deferred = deferred_details]
    ELSE pg

\* the secondary store after TaskRepository.update has written document doc
\* of task t from update_data
UpdateSync(pg, t, doc, update_data) ==
    LET pg1 == update_document(pg, t, doc)
    IN  IF "deferredDetails" \in DOMAIN update_data
        THEN _handle_deferred_details_sync(pg1, t, update_data["deferredDetails"])
        ELSE pg1

\* TaskRepository.delete_by_id, after its checks: the $set of the soft delete
TaskSoftDelete(tk, t, u, nw) ==
    [tk EXCEPT ![t] = ApplySet(tk[t],
        Field("isDeleted", TRUE) @@ Field("updatedAt", nw) @@ Field("updatedBy", u))]

----------------------------------------------------------------------------
(* Audit log *)

AuditEntry(t, tm, action, u) ==
    [task_id |-> t, team_id |-> tm, action |-> action,
     status_from |-> NoId, status_to |-> NoId, performed_by |-> u]

StatusChanged(t, from, to, u) ==
    [task_id |-> t, team_id |-> NoId, action |-> "status_changed",
     status_from |-> from, status_to |-> to, performed_by |-> u]

----------------------------------------------------------------------------
(* TaskAssignmentService.create_task_assignment *)

NoRecord ==
    [task_id |-> NoTask, assignee_id |-> NoId, user_type |-> NoId,
     team_id |-> NoId, is_active |-> FALSE]

\* the validation of the task and of the assignee; "ok" when it passes
AssignmentCheck(tk, dto) ==
    IF ~HasTask(tk, dto.task_id) THEN "TaskNotFoundException"
    ELSE IF dto.user_type = "user"
    THEN (IF UserExists(dto.assignee_id) THEN "ok" ELSE "UserNotFoundException")
    ELSE IF dto.user_type = "team"
    THEN (IF TeamExists(dto.assignee_id) THEN "ok" ELSE "ValueError")
    ELSE "ValueError"

\* (variant: the check for an existing active assignment finds nothing)
ExistingAssignment_Blind(asg, t) == {NoRecord}

\* what existing_assignment may be: NoRecord stands for None
ExistingAssignment(asg, t) ==
    IF get_by_task_id(asg, t) = {} THEN {NoRecord} ELSE get_by_task_id(asg, t)

\* the part of create_task_assignment after the get_by_task_id read, given
\* the existing_assignment that read returned
AssignmentWrite(asg, aud, dto, u, existing) ==
    IF existing # NoRecord
    THEN LET aud1 == IF existing.user_type = "team"
                     THEN Append(aud, AuditEntry(existing.task_id, existing.assignee_id,
                                                 "unassigned_from_team", u))
                     ELSE aud
             asg1 == update_assignment(asg, dto.task_id, dto.assignee_id, dto.user_type)
             aud2 == IF dto.user_type = "team"
                     THEN Append(aud1, AuditEntry(dto.task_id, dto.assignee_id,
                                                  "assigned_to_team", u))
                     ELSE aud1
         IN  [assignments |-> asg1, audit |-> aud2]
    ELSE LET rec == NewAssignment(dto.task_id, dto.assignee_id, dto.user_type, dto.team_id)
             asg1 == AssignmentCreate(asg, rec)
             aud1 == IF rec.user_type = "user" /\ rec.team_id # NoId
                     THEN Append(aud, AuditEntry(rec.task_id, rec.team_id,
                                                 "assigned_to_member", u))
                     ELSE aud
             aud2 == IF rec.user_type = "team"
                     THEN Append(aud1, AuditEntry(rec.task_id, rec.assignee_id,
                                                  "assigned_to_team", u))
                     ELSE aud1
         IN  [assignments |-> asg1, audit |-> aud2]

----------------------------------------------------------------------------
(* Outcome of a call *)

\* a datetime without tzinfo, and one with the tzinfo of a UTC offset
Naive(wall) == [wall |-> wall, aware |-> FALSE, offset |-> 0]
Aware(wall, offset) == [wall |-> wall, aware |-> TRUE, offset |-> offset]

\* the instant of a datetime, a naive one being taken as UTC
AsUtc(dt) == IF dt.aware THEN dt.wall - dt.offset ELSE dt.wall

\* current_task as an update operation found it, where it is kept for the
\* answer
NoBefore == [status |-> NoId, startedAt |-> NoTime, deferredDetails |-> NoDeferral]
Before(cur) ==
    [status |-> cur.status, startedAt |-> cur.startedAt,
     deferredDetails |-> cur.deferredDetails]

\* the update_data argument of TaskRepository.update: a dictionary, or
\* something else
Dict(data) == [dict |-> TRUE, data |-> data]
NotADict == [dict |-> FALSE, data |-> NoData]
NoUpdateData == Dict(NoData)

\* no sort stage
NoCriteria == [key |-> NoId, direction |-> 0]

\* no link, and links = None
NoLink == [page |-> 0, limit |-> 0, sort_by |-> NoId, order |-> NoId]
NoLinks == [present |-> FALSE, next |-> NoLink, prev |-> NoLink]

Resp(op, t, u, err) ==
    [op |-> op, task |-> t, user |-> u, team |-> NoId, status |-> NoId,
     assignees |-> {}, err |-> err, code |-> NoId, out |-> {}, total |-> 0,
     calls |-> {}, till |-> Naive(NoTime), assignee |-> NoAssignee,
     page |-> 0, limit |-> 0, sort_by |-> NoId, order |-> NoId,
     criteria |-> NoCriteria, pages |-> << >>, links |-> NoLinks,
     request |-> NoId, before |-> NoBefore,
     update_data |-> NoUpdateData, payload |-> NoData]

NoPending == [task_id |-> NoTask, assignee_id |-> NoId, user_type |-> NoId,
              team_id |-> NoId, user |-> NoId, existing |-> NoRecord]

\* the TaskModel handed to TaskRepository.create
TaskModel(status, createdBy) ==
    [status |-> status, createdBy |-> createdBy, deferredDetails |-> NoDeferral,
     dueAt |-> NoTime, startedAt |-> NoTime, isDeleted |-> FALSE,
     updatedBy |-> NoId, updatedAt |-> NoTime, displayId |-> DisplayId(NoCounter)]

\* no TaskRepository.create transaction in progress
NoTxn == [state |-> "idle", doc |-> TaskModel(NoId, NoId), next_number |-> NoCounter]

\* the step stays within nT task documents, nA assignment records and nL
\* audit entries
Within(nT, nA, nL) ==
    /\ Cardinality(DOMAIN tasks') <= nT
    /\ BagCardinality(assignments') <= nA
    /\ Len(audit') <= nL

Init ==
    /\ tasks = [t \in {} |-> NoId]
    /\ assignments = EmptyBag
    /\ audit = << >>
    /\ now = 1
    /\ teams \in TeamFixtures
    /\ pend = [p \in 1..MaxPending |-> NoPending]
    /\ resp = Resp("init", NoTask, NoId, "ok")
    /\ counter = NoCounter
    /\ txn = [p \in 1..MaxPending |-> NoTxn]
    /\ postgres = [t \in {} |-> NoId]
    /\ postgres_up = TRUE

\* the whole create_task_assignment call, run without interleaving
create_task_assignment(dto, u) ==
    LET chk == AssignmentCheck(tasks, dto)
    IN  /\ IF chk # "ok"
           THEN UNCHANGED <<assignments, audit>>
           ELSE \E existing \in ExistingAssignment(assignments, dto.task_id) :
                    LET o == AssignmentWrite(assignments, audit, dto, u, existing)
                    IN  /\ assignments' = o.assignments
                        /\ audit' = o.audit
        /\ resp' = Resp("create_task_assignment", dto.task_id, u, chk)
        /\ UNCHANGED <<tasks, now, teams, pend, txn, postgres_up>>
        /\ UNCHANGED <<counter, postgres>>

----------------------------------------------------------------------------
(* TaskService: the operations that write *)

\* (variant: the update operations validate user assignees only)
AssigneeCheck_UsersOnly(a) ==
    IF a = NoAssignee THEN "ok"
    ELSE IF a.user_type = "user"
    THEN (IF UserExists(a.assignee_id) THEN "ok" ELSE "UserNotFoundException")
    ELSE "ok"

\* the validation of an assignee dictionary by the update operations
AssigneeCheck(a) ==
    IF a = NoAssignee THEN "ok"
    ELSE IF a.user_type = "user"
    THEN (IF UserExists(a.assignee_id) THEN "ok" ELSE "UserNotFoundException")
    ELSE IF a.user_type = "team"
    THEN (IF TeamExists(a.assignee_id) THEN "ok" ELSE "ValueError")
    ELSE "ok"

\* the validation of the assignee by create_task, which also checks the
\* team_id of a user assignment
CreateAssigneeCheck(a) ==
    IF a = NoAssignee THEN "ok"
    ELSE IF a.user_type = "user"
    THEN (IF ~UserExists(a.assignee_id) THEN "UserNotFoundException"
          ELSE IF a.team_id # NoId /\ ~TeamExists(a.team_id) THEN "ValueError"
          ELSE "ok")
    ELSE IF a.user_type = "team"
    THEN (IF TeamExists(a.assignee_id) THEN "ok" ELSE "ValueError")
    ELSE "ok"

\* (variant: the permission check is left out)
AccessCheck_Open(tk, asg, t, u) ==
    IF ~HasTask(tk, t) THEN "TaskNotFoundException" ELSE "ok"

\* the checks every update, defer and delete starts with
AccessCheck(tk, asg, t, u) ==
    IF ~HasTask(tk, t) THEN "TaskNotFoundException"
    ELSE IF ~Permitted(tk, asg, t, u) THEN "PermissionError"
    ELSE "ok"

create_task(dto) ==
    LET chk == CreateAssigneeCheck(dto.assignee)
        doc == [status |-> dto.status, createdBy |-> dto.createdBy,
                deferredDetails |-> NoDeferral, dueAt |-> dto.dueAt,
                startedAt |-> IF dto.status = IN_PROGRESS THEN now ELSE NoTime,
                isDeleted |-> FALSE, updatedBy |-> NoId, updatedAt |-> NoTime,
                displayId |-> DisplayId(NextNumber(counter)),
                priority |-> IF "priority" \in DOMAIN dto THEN dto.priority ELSE LOW,
                createdAt |-> now]
        tk1 == TaskCreate(tasks, doc)
        id == Cardinality(DOMAIN tasks) + 1
        team_id == IF dto.assignee.user_type = "team" THEN dto.assignee.assignee_id
                   ELSE dto.assignee.team_id
        adto == [task_id |-> id, assignee_id |-> dto.assignee.assignee_id,
                 user_type |-> dto.assignee.user_type, team_id |-> team_id]
    IN  /\ IF chk # "ok"
           THEN /\ UNCHANGED store
                /\ UNCHANGED <<counter, postgres>>
                /\ resp' = [Resp("create_task", NoTask, dto.createdBy, chk)
                               EXCEPT !.assignee = dto.assignee]
           ELSE /\ tasks' = tk1
                /\ counter' = NextNumber(counter)
                /\ postgres' = create_document(postgres, id, tk1[id])
                /\ IF dto.assignee = NoAssignee
                   THEN /\ UNCHANGED <<assignments, audit>>
                        /\ resp' = [Resp("create_task", id, dto.createdBy, "ok")
                                       EXCEPT !.assignee = dto.assignee]
                   ELSE LET achk == AssignmentCheck(tk1, adto)
                        IN  /\ IF achk # "ok"
                               THEN UNCHANGED <<assignments, audit>>
                               ELSE \E existing \in ExistingAssignment(assignments, id) :
                                        LET o == AssignmentWrite(assignments, audit, adto,
                                                                 dto.createdBy, existing)
                                        IN  /\ assignments' = o.assignments
                                            /\ audit' = o.audit
                            /\ resp' = [Resp("create_task", id, dto.createdBy,
                                             IF achk = "ok" THEN "ok" ELSE "ValueError")
                                           EXCEPT !.assignee = dto.assignee]
        /\ UNCHANGED <<now, teams, pend, txn, postgres_up>>

\* TaskService.update_task; updated tells whether TaskRepository.update found
\* the document: it returns None when another client of the store has removed
\* the document since the lookup of current_task
update_task_call(t, data, u, updated) ==
    LET acc == AccessCheck(tasks, assignments, t, u)
        chk == IF acc # "ok" THEN acc ELSE AssigneeCheck(data.assignee)
        old_status == tasks[t].status
        new_status == data.status
        update_payload == IF data.status # NoId THEN Field("status", data.status) ELSE NoData
        logged == IF new_status # NoId /\ old_status # new_status
                  THEN Append(audit, StatusChanged(t, old_status, new_status, u))
                  ELSE audit
    IN  /\ updated \/ (chk = "ok" /\ update_payload # NoData)
        /\ IF chk # "ok"
           THEN UNCHANGED store
           ELSE /\ assignments' =
                       IF data.assignee # NoAssignee
                       THEN update_assignee(assignments, t, data.assignee.assignee_id,
                                            data.assignee.user_type)
                       ELSE assignments
                /\ IF update_payload = NoData
                   THEN UNCHANGED <<tasks, audit>>
                   ELSE /\ tasks' = IF updated
                                    THEN TaskUpdate(tasks, t,
                                             Field("updatedBy", u) @@ update_payload, now)
                                    ELSE [x \in (DOMAIN tasks) \ {t} |-> tasks[x]]
                        /\ audit' = logged
        /\ postgres' =
               IF chk = "ok" /\ update_payload # NoData /\ updated
               THEN UpdateSync(postgres, t, tasks'[t], Field("updatedBy", u) @@ update_payload)
               ELSE postgres
        /\ resp' = [Resp("update_task", t, u,
                         IF chk = "ok" /\ ~updated THEN "TaskNotFoundException" ELSE chk)
                       EXCEPT !.assignee = data.assignee]
        /\ UNCHANGED <<now, teams, pend, txn, postgres_up>>
        /\ UNCHANGED counter

\* update_task on a store that no other client writes to
update_task(t, data, u) == update_task_call(t, data, u, TRUE)

\* (variant: startedAt is stamped by every request for IN_PROGRESS)
StartedAtPayload_Always(status, cur, nw) ==
    IF status = IN_PROGRESS THEN Field("startedAt", nw) ELSE NoData

\* the startedAt logic of the update operations
StartedAtPayload(status, cur, nw) ==
    IF status = IN_PROGRESS /\ cur.startedAt = NoTime
    THEN Field("startedAt", nw) ELSE NoData

\* (variant: the deferral ends only when the status changes)
DeferredPayload_OnChange(status, cur) ==
    IF /\ status # NoId /\ status # DEFERRED /\ status # cur.status
       /\ cur.deferredDetails # NoDeferral
    THEN Field("deferredDetails", NoDeferral) ELSE NoData

\* update_task_with_assignee_from_dict: an explicit status other than
\* DEFERRED ends the deferral of the task
DeferredPayload(status, cur) ==
    IF status # NoId /\ status # DEFERRED /\ cur.deferredDetails # NoDeferral
    THEN Field("deferredDetails", NoDeferral) ELSE NoData

update_task_with_assignee_from_dict(t, data, u) ==
    LET acc == AccessCheck(tasks, assignments, t, u)
        chk == IF acc # "ok" THEN acc ELSE AssigneeCheck(data.assignee)
        cur == tasks[t]
        p_status ==
            IF data.status = DEFERRED THEN Field("status", cur.status)
            ELSE IF data.status # NoId /\ cur.status # data.status
            THEN Field("status", data.status)
            ELSE NoData
        p_started == StartedAtPayload(data.status, cur, now)
        p_deferred == DeferredPayload(data.status, cur)
        update_payload == p_status @@ p_started @@ p_deferred
    IN  /\ IF chk # "ok"
           THEN UNCHANGED store
           ELSE /\ tasks' = IF update_payload # NoData
                            THEN TaskUpdate(tasks, t,
                                     Field("updatedBy", u) @@ update_payload, now)
                            ELSE tasks
                /\ assignments' =
                       IF data.assignee # NoAssignee
                       THEN update_assignment(assignments, t, data.assignee.assignee_id,
                                              data.assignee.user_type)
                       ELSE assignments
                /\ UNCHANGED audit
        /\ postgres' =
               IF chk = "ok" /\ update_payload # NoData
               THEN UpdateSync(postgres, t, tasks'[t], Field("updatedBy", u) @@ update_payload)
               ELSE postgres
        /\ resp' = [Resp("update_task_with_assignee_from_dict", t, u, chk)
                       EXCEPT !.assignee = data.assignee,
                              !.request = IF chk = "ok" THEN data.status ELSE NoId,
                              !.before = IF chk = "ok" THEN Before(cur) ELSE NoBefore]
        /\ UNCHANGED <<now, teams, pend, txn, postgres_up>>
        /\ UNCHANGED counter

update_task_with_assignee(t, dto, u) ==
    LET acc == AccessCheck(tasks, assignments, t, u)
        chk == IF acc # "ok" THEN acc ELSE AssigneeCheck(dto.assignee)
        cur == tasks[t]
        p_status ==
            IF dto.status # NoId /\ cur.status # dto.status
            THEN Field("status", dto.status) ELSE NoData
        p_started == StartedAtPayload(dto.status, cur, now)
        update_payload == p_status @@ p_started
    IN  /\ IF chk # "ok"
           THEN UNCHANGED store
           ELSE /\ tasks' = IF update_payload # NoData
                            THEN TaskUpdate(tasks, t,
                                     Field("updatedBy", u) @@ update_payload, now)
                            ELSE tasks
                /\ assignments' =
                       IF dto.assignee # NoAssignee
                       THEN update_assignment(assignments, t, dto.assignee.assignee_id,
                                              dto.assignee.user_type)
                       ELSE assignments
                /\ UNCHANGED audit
        /\ postgres' =
               IF chk = "ok" /\ update_payload # NoData
               THEN UpdateSync(postgres, t, tasks'[t], Field("updatedBy", u) @@ update_payload)
               ELSE postgres
        /\ resp' = [Resp("update_task_with_assignee", t, u, chk)
                       EXCEPT !.assignee = dto.assignee,
                              !.request = IF chk = "ok" THEN dto.status ELSE NoId,
                              !.before = IF chk = "ok" THEN Before(cur) ELSE NoBefore]
        /\ UNCHANGED <<now, teams, pend, txn, postgres_up>>
        /\ UNCHANGED counter

\* (variant: a DONE task may be deferred)
DeferStateCheck_Open(cur) == "ok"

\* defer_task on a DONE task
DeferStateCheck(cur) ==
    IF cur.status = DONE THEN "TaskStateConflictException" ELSE "ok"

\* (variant: the due date is not looked at)
DeferDueCheck_Open(cur, deferred_till) == "ok"

\* defer_task: deferredTill against the dueAt of the task, both in UTC
DeferDueCheck(cur, deferred_till) ==
    IF cur.dueAt # NoTime /\ AsUtc(deferred_till) >= cur.dueAt
    THEN "UnprocessableEntityException"
    ELSE "ok"

\* (variant: the status is left as it is)
DeferPayload_KeepsStatus(deferred_till, u, nw) ==
    Field("deferredDetails", [deferredAt |-> nw, deferredTill |-> AsUtc(deferred_till),
                              deferredBy |-> u])
        @@ Field("updatedBy", u)

\* the update_payload of defer_task
DeferPayload(deferred_till, u, nw) ==
    Field("status", TODO)
        @@ Field("deferredDetails", [deferredAt |-> nw,
                                     deferredTill |-> AsUtc(deferred_till),
                                     deferredBy |-> u])
        @@ Field("updatedBy", u)

defer_task(t, deferred_till, u) ==
    LET acc == AccessCheck(tasks, assignments, t, u)
        cur == tasks[t]
        chk == IF acc # "ok" THEN acc
               ELSE IF DeferStateCheck(cur) # "ok" THEN DeferStateCheck(cur)
               ELSE DeferDueCheck(cur, deferred_till)
        update_payload == DeferPayload(deferred_till, u, now)
    IN  /\ IF chk # "ok"
           THEN UNCHANGED tasks
           ELSE tasks' = TaskUpdate(tasks, t, update_payload, now)
        /\ postgres' = IF chk = "ok"
                        THEN UpdateSync(postgres, t, tasks'[t], update_payload)
                        ELSE postgres
        /\ resp' = [Resp("defer_task", t, u, chk) EXCEPT !.till = deferred_till]
        /\ UNCHANGED <<assignments, audit, now, teams, pend, txn, postgres_up>>
        /\ UNCHANGED counter

\* (variant: the lookup of delete_by_id finds deleted tasks too)
DeleteLookup_AnyTask(tk, t) == HasTask(tk, t)

\* find_one({"_id": task_id, "isDeleted": False}) finds a task
DeleteLookup(tk, t) == HasTask(tk, t) /\ ~tk[t].isDeleted

\* TaskService.delete_task and TaskRepository.delete_by_id
delete_task(t, u) ==
    LET chk == IF ~DeleteLookup(tasks, t) THEN "TaskNotFoundException"
               ELSE IF ~Permitted(tasks, assignments, t, u) THEN "PermissionError"
               ELSE "ok"
    IN  /\ IF chk # "ok"
           THEN UNCHANGED <<tasks, assignments>>
           ELSE /\ assignments' = deactivate_by_task_id(assignments, t)
                /\ tasks' = TaskSoftDelete(tasks, t, u, now)
        /\ resp' = Resp("delete_task", t, u, chk)
        /\ UNCHANGED <<audit, now, teams, pend, txn, postgres_up>>
        /\ UNCHANGED <<counter, postgres>>

----------------------------------------------------------------------------
(* TaskRepository.create under concurrency: the call runs in a transaction *)
(* of the document store, in three steps: the find_one_and_update on the    *)
(* counter, the insert_one of a missing counter document, and the insert of *)
(* the task with the commit.  A write to a document that another open       *)
(* transaction has written, or that was committed after this transaction's  *)
(* read, aborts the transaction; an aborted transaction leaves nothing.     *)

\* (variant: writes of open transactions never conflict)
WriteConflict_Never(tx, p) == FALSE

\* another open transaction has written the counter document
WriteConflict(tx, p) ==
    \E q \in DOMAIN tx : q # p /\ tx[q].state = "counted"

create_abort(p) ==
    /\ txn' = [txn EXCEPT ![p] = NoTxn]
    /\ resp' = Resp("TaskRepository_create", NoTask, txn[p].doc.createdBy, "ValueError")
    /\ UNCHANGED <<tasks, assignments, audit, now, teams, pend, postgres_up>>
    /\ UNCHANGED <<counter, postgres>>

\* start_transaction and find_one_and_update({"_id": "taskDisplayId"}, $inc)
create_begin(p, doc) ==
    /\ txn[p] = NoTxn
    /\ IF counter = NoCounter
       THEN /\ txn' = [txn EXCEPT ![p] = [state |-> "missing", doc |-> doc,
                                           next_number |-> NoCounter]]
            /\ UNCHANGED resp
       ELSE IF WriteConflict(txn, p)
       THEN /\ UNCHANGED txn
            /\ resp' = Resp("TaskRepository_create", NoTask, doc.createdBy, "ValueError")
       ELSE /\ txn' = [txn EXCEPT ![p] = [state |-> "counted", doc |-> doc,
                                           next_number |-> counter + 1]]
            /\ UNCHANGED resp
    /\ UNCHANGED <<tasks, assignments, audit, now, teams, pend, postgres_up>>
    /\ UNCHANGED <<counter, postgres>>

\* counters.insert_one({"_id": "taskDisplayId", "seq": 1}) when the
\* find_one_and_update found no counter document
create_counter(p) ==
    /\ txn[p].state = "missing"
    /\ IF counter # NoCounter \/ WriteConflict(txn, p)
       THEN create_abort(p)
       ELSE /\ txn' = [txn EXCEPT ![p].state = "counted", ![p].next_number = 1]
            /\ UNCHANGED resp
            /\ UNCHANGED <<tasks, assignments, audit, now, teams, pend, postgres_up>>
            /\ UNCHANGED <<counter, postgres>>

\* (variant: a failed dual write fails the call)
AfterDualWrite_Strict(dual_write_success) ==
    IF dual_write_success THEN "ok" ELSE "ValueError"

\* what create and update do with dual_write_success: a failure is logged
\* and the task is returned all the same
AfterDualWrite(dual_write_success) == "ok"

\* the insert of the task, the dual write and the commit
create_commit(p) ==
    LET id == Cardinality(DOMAIN tasks) + 1
        doc == [txn[p].doc EXCEPT !.displayId = DisplayId(txn[p].next_number)]
        tk1 == TaskCreate(tasks, doc)
    IN  /\ txn[p].state = "counted"
        /\ IF AfterDualWrite(postgres_up) = "ok"
           THEN /\ tasks' = tk1
                /\ counter' = txn[p].next_number
                /\ postgres' = create_document(postgres, id, tk1[id])
                /\ txn' = [txn EXCEPT ![p] = NoTxn]
                /\ resp' = Resp("TaskRepository_create", id, doc.createdBy, "ok")
                /\ UNCHANGED <<assignments, audit, now, teams, pend, postgres_up>>
           ELSE create_abort(p)

\* TaskRepository.update(task_id, {"status": st, "updatedBy": u}) on its own
TaskRepository_update(t, st, u) ==
    LET update_data == Field("status", st) @@ Field("updatedBy", u)
        found == HasTask(tasks, t) /\ AfterDualWrite(postgres_up) = "ok"
    IN  /\ tasks' = IF found THEN TaskUpdate(tasks, t, update_data, now) ELSE tasks
        /\ postgres' = IF found THEN UpdateSync(postgres, t, tasks'[t], update_data)
                        ELSE postgres
        /\ resp' = [Resp("TaskRepository_update", t, u,
                          IF ~HasTask(tasks, t) THEN "None"
                          ELSE AfterDualWrite(postgres_up))
                       EXCEPT !.status = st]
        /\ UNCHANGED <<assignments, audit, now, teams, pend, txn, postgres_up, counter>>

\* ObjectId(task_id) succeeds
IsObjectId(task_id) == task_id # BadId

\* TaskRepository.update called with any task id and any update_data
TaskRepository_update_data(task_id, update_data) ==
    LET err == IF ~update_data.dict THEN "ValueError"
               ELSE IF ~IsObjectId(task_id) THEN "None"
               ELSE IF ~HasTask(tasks, task_id) THEN "None"
               ELSE "ok"
        payload == UpdatePayload(update_data.data, now)
    IN  /\ tasks' = IF err = "ok" THEN TaskUpdate(tasks, task_id, update_data.data, now)
                    ELSE tasks
        /\ postgres' = IF err = "ok"
                       THEN UpdateSync(postgres, task_id, tasks'[task_id], update_data.data)
                       ELSE postgres
        /\ resp' = [Resp("TaskRepository_update_data", task_id, NoId, err) EXCEPT
                       !.update_data = update_data,
                       !.payload = IF err = "ok" THEN payload ELSE NoData]
        /\ UNCHANGED <<assignments, audit, now, teams, pend, txn, postgres_up, counter>>

\* the secondary store goes down and comes back
Outage ==
    /\ postgres_up' = ~postgres_up
    /\ UNCHANGED <<tasks, assignments, audit, now, teams, pend, resp, counter, txn,
                   postgres>>

----------------------------------------------------------------------------
(* Reading tasks: TaskRepository.list / count, TaskService.get_tasks and   *)
(* the GET handler of TaskListView                                         *)

\* TaskRepository.list, all pages together, and TaskRepository.count called
\* with the same filters
TaskRepository_list(u, tm, sf, aids) ==
    /\ resp' = [Resp("list", NoTask, u, "ok") EXCEPT
                   !.team = tm, !.status = sf, !.assignees = aids,
                   !.out = MatchingTasks(tasks, assignments, now, u, tm, sf, aids),
                   !.total = count(tasks, assignments, now, u, tm, sf, aids),
                   !.calls = ListCalls(assignments, u, tm, aids)]
    /\ UNCHANGED <<tasks, assignments, audit, now, teams, pend, txn, postgres_up>>
    /\ UNCHANGED <<counter, postgres>>

\* the sort stage of TaskRepository.list: the key of the documents it sorts
\* on and the direction handed to the store
SortCriteria_PriorityLikeDates(sort_by, order) ==
    IF sort_by = SORT_FIELD_UPDATED_AT
    THEN [key |-> "lastActivity", direction |-> IF order = SORT_ORDER_DESC THEN -1 ELSE 1]
    ELSE IF sort_by = SORT_FIELD_ASSIGNEE
    THEN [key |-> "createdAt", direction |-> IF order = SORT_ORDER_DESC THEN -1 ELSE 1]
    ELSE [key |-> sort_by, direction |-> IF order = SORT_ORDER_DESC THEN -1 ELSE 1]

SortCriteria(sort_by, order) ==
    IF sort_by = SORT_FIELD_UPDATED_AT
    THEN [key |-> "lastActivity", direction |-> IF order = SORT_ORDER_DESC THEN -1 ELSE 1]
    ELSE IF sort_by = SORT_FIELD_PRIORITY
    THEN [key |-> sort_by, direction |-> IF order = SORT_ORDER_DESC THEN 1 ELSE -1]
    ELSE IF sort_by = SORT_FIELD_ASSIGNEE
    THEN [key |-> "createdAt", direction |-> IF order = SORT_ORDER_DESC THEN -1 ELSE 1]
    ELSE [key |-> sort_by, direction |-> IF order = SORT_ORDER_DESC THEN -1 ELSE 1]

\* $addFields lastActivity: $ifNull [updatedAt, createdAt]
lastActivity(d) == IF d.updatedAt # NoTime THEN d.updatedAt ELSE d.createdAt

\* the value of the sort key in document d (a missing date sorts lowest)
KeyValue(d, key) == IF key = "lastActivity" THEN lastActivity(d) ELSE d[key]

\* the sequences without repetition of the elements of ids
Orders(ids) ==
    {s \in [1..Cardinality(ids) -> ids] : \A i, j \in DOMAIN s : i # j => s[i] # s[j]}

\* .sort(sort_criteria) and the $sort stage: the orders in which the store
\* may hand out the documents ids; the sort is on one key, and documents
\* with equal keys come in an order the store chooses anew for every query
SortedOrders(tk, ids, c) ==
    {s \in Orders(ids) :
        \A i, j \in DOMAIN s :
            i < j => c.direction * KeyValue(tk[s[i]], c.key)
                        <= c.direction * KeyValue(tk[s[j]], c.key)}

\* .skip((page - 1) * limit).limit(limit)
SkipLimit(s, page, limit) ==
    LET skip == (page - 1) * limit
    IN  [i \in 1..(IF Len(s) - skip > limit THEN limit
                   ELSE IF Len(s) - skip > 0 THEN Len(s) - skip ELSE 0)
            |-> s[skip + i]]

\* TaskRepository.list: the pages it may return
ListPage(tk, asg, nw, page, limit, sort_by, order, u, tm, sf, aids) ==
    {SkipLimit(s, page, limit) :
        s \in SortedOrders(tk, MatchingTasks(tk, asg, nw, u, tm, sf, aids),
                           SortCriteria(sort_by, order))}

\* one call of TaskRepository.list for a page; the pages returned by
\* successive calls with the same filter, sort_by, order and limit are kept
\* together as long as no other operation comes in between
TaskRepository_list_page(page, limit, sort_by, order, u, tm, sf) ==
    LET same == /\ resp.op = "list_page" /\ resp.user = u /\ resp.team = tm
                /\ resp.status = sf /\ resp.limit = limit
                /\ resp.sort_by = sort_by /\ resp.order = order
    IN  \E out \in ListPage(tasks, assignments, now, page, limit, sort_by, order,
                             u, tm, sf, {}) :
            /\ resp' = [Resp("list_page", NoTask, u, "ok") EXCEPT
                           !.team = tm, !.status = sf, !.page = page, !.limit = limit,
                           !.sort_by = sort_by, !.order = order,
                           !.criteria = SortCriteria(sort_by, order),
                           !.total = count(tasks, assignments, now, u, tm, sf, {}),
                           !.pages = (page :> out)
                                        @@ (IF same THEN resp.pages ELSE << >>)]
            /\ UNCHANGED <<tasks, assignments, audit, now, teams, pend, txn, postgres_up>>
            /\ UNCHANGED <<counter, postgres>>

\* _validate_pagination_params
_validate_pagination_params(page, limit) ==
    IF page < 1 THEN "VALIDATION_ERROR"
    ELSE IF limit < 1 THEN "VALIDATION_ERROR"
    ELSE IF limit > MAX_LIMIT THEN "VALIDATION_ERROR"
    ELSE "ok"

build_page_url(page, limit, sort_by, order) ==
    [page |-> page, limit |-> limit, sort_by |-> sort_by, order |-> order]

\* math.ceil(a / b)
Ceil(a, b) == (a + b - 1) \div b

\* (variant: the last page has a next link too)
_build_pagination_links_Inclusive(page, limit, total_count, sort_by, order) ==
    LET total_pages == Ceil(total_count, limit)
    IN  [present |-> TRUE,
         next |-> IF page <= total_pages
                  THEN build_page_url(page + 1, limit, sort_by, order) ELSE NoLink,
         prev |-> IF page > 1
                  THEN build_page_url(page - 1, limit, sort_by, order) ELSE NoLink]

_build_pagination_links(page, limit, total_count, sort_by, order) ==
    LET total_pages == Ceil(total_count, limit)
    IN  [present |-> TRUE,
         next |-> IF page < total_pages
                  THEN build_page_url(page + 1, limit, sort_by, order) ELSE NoLink,
         prev |-> IF page > 1
                  THEN build_page_url(page - 1, limit, sort_by, order) ELSE NoLink]

\* TaskService.get_tasks with its pagination: the page of tasks and the links
get_tasks_page(page, limit, sort_by, order, u, tm, sf) ==
    LET chk == IF _validate_pagination_params(page, limit) # "ok"
               THEN "VALIDATION_ERROR"
               ELSE IF tm # NoId /\ ~is_user_team_member(tm, u) THEN "FORBIDDEN"
               ELSE "ok"
        total_count == count(tasks, assignments, now, u, tm, sf, {})
    IN  /\ IF chk # "ok"
           THEN resp' = [Resp("get_tasks_page", NoTask, u, chk) EXCEPT
                            !.team = tm, !.status = sf, !.page = page, !.limit = limit,
                            !.sort_by = sort_by, !.order = order]
           ELSE \E out \in ListPage(tasks, assignments, now, page, limit, sort_by,
                                     order, u, tm, sf, {}) :
                    resp' = [Resp("get_tasks_page", NoTask, u, "ok") EXCEPT
                                !.team = tm, !.status = sf, !.page = page,
                                !.limit = limit, !.sort_by = sort_by, !.order = order,
                                !.total = total_count,
                                !.pages = (page :> out),
                                !.links = IF out = << >> THEN NoLinks
                                          ELSE _build_pagination_links(
                                                   page, limit, total_count,
                                                   sort_by, order)]
        /\ UNCHANGED <<tasks, assignments, audit, now, teams, pend, txn, postgres_up>>
        /\ UNCHANGED <<counter, postgres>>

\* the result of TaskService.get_tasks for valid page and limit: list and
\* count are called without assignee_ids
get_tasks_result(tk, asg, nw, u, tm, sf) ==
    IF tm # NoId /\ ~is_user_team_member(tm, u)
    THEN [tasks |-> {}, error |-> "FORBIDDEN", total |-> 0, calls |-> {}]
    ELSE [tasks |-> MatchingTasks(tk, asg, nw, u, tm, sf, {}), error |-> "ok",
          total |-> count(tk, asg, nw, u, tm, sf, {}),
          calls |-> {"list", "count"}]

get_tasks(u, tm, sf) ==
    LET r == get_tasks_result(tasks, assignments, now, u, tm, sf)
    IN  /\ resp' = [Resp("get_tasks", NoTask, u, r.error) EXCEPT
                       !.team = tm, !.status = sf, !.out = r.tasks,
                       !.total = r.total, !.calls = r.calls]
        /\ UNCHANGED <<tasks, assignments, audit, now, teams, pend, txn, postgres_up>>
        /\ UNCHANGED <<counter, postgres>>

\* the parameters in the signature of TaskService.get_tasks
get_tasks_parameters ==
    {"page", "limit", "sort_by", "order", "user_id", "team_id", "status_filter"}

\* the keyword arguments of the call of get_tasks by TaskListView.get
get_tasks_keywords ==
    {"page", "limit", "sort_by", "order", "user_id", "team_id", "status_filter",
     "assignee_ids"}

\* TaskListView.get without profile=true, for a query that passes
\* GetTaskQueryParamsSerializer
TaskListView_get(u, tm, sf, aids) ==
    LET invalid_assignees == aids \ get_users_by_team_id(tm)
        r == get_tasks_result(tasks, assignments, now, u, tm, sf)
        answer ==
            IF aids # {} /\ tm = NoId
            THEN [err |-> "ValidationError", code |-> "400", out |-> {}, calls |-> {}]
            ELSE IF aids # {} /\ invalid_assignees # {}
            THEN [err |-> "ValidationError", code |-> "400", out |-> {}, calls |-> {}]
            ELSE IF ~(get_tasks_keywords \subseteq get_tasks_parameters)
            THEN [err |-> "TypeError", code |-> "500", out |-> {}, calls |-> {}]
            ELSE IF r.error = "FORBIDDEN"
            THEN [err |-> r.error, code |-> "403", out |-> r.tasks, calls |-> r.calls]
            ELSE [err |-> r.error, code |-> "200", out |-> r.tasks, calls |-> r.calls]
    IN  /\ resp' = [Resp("TaskListView_get", NoTask, u, answer.err) EXCEPT
                       !.team = tm, !.status = sf, !.assignees = aids,
                       !.code = answer.code, !.out = answer.out,
                       !.calls = answer.calls]
        /\ UNCHANGED <<tasks, assignments, audit, now, teams, pend, txn, postgres_up>>
        /\ UNCHANGED <<counter, postgres>>

\* the passing of time; the outcome of the last call is no longer current
Tick ==
    /\ now < MaxTime
    /\ now' = now + 1
    /\ resp' = Resp("tick", NoTask, NoId, "ok")
    /\ UNCHANGED <<tasks, assignments, audit, teams, pend, txn, postgres_up>>
    /\ UNCHANGED <<counter, postgres>>

----------------------------------------------------------------------------
(* The requests the specifications draw from *)

UserAssignee(a, tm) == [assignee_id |-> a, user_type |-> "user", team_id |-> tm]
TeamAssignee(a) == [assignee_id |-> a, user_type |-> "team", team_id |-> NoId]

AssignmentDTO(t, a) ==
    [task_id |-> t, assignee_id |-> a.assignee_id, user_type |-> a.user_type,
     team_id |-> a.team_id]

\* the assignees of a request: a user, a user within a team, or a team
SomeAssignees ==
    {UserAssignee("u2", NoId), UserAssignee("u2", "tA")}
        \cup {TeamAssignee(a) : a \in Teams}

----------------------------------------------------------------------------
(* Spec: the sequentially executed operations that write assignments and   *)
(* audit entries, called by the creator of the tasks                       *)

Actors == {"u1"}
\* (the update operations do not read the team_id of a user assignee)
UpdateData ==
    [status : {NoId, DONE},
     assignee : {NoAssignee, UserAssignee("u2", NoId), TeamAssignee("tB")}]
InRange == Within(MaxTasks, MaxAssignments, MaxAudit)

Next ==
    \/ \E dto \in [status : {TODO}, createdBy : Actors, dueAt : {NoTime},
                   assignee : {NoAssignee, UserAssignee("u2", NoId), TeamAssignee("tA")}] :
           create_task(dto) /\ InRange
    \/ \E t \in TaskIds, a \in {UserAssignee("u2", "tA"), TeamAssignee("tA")},
          u \in Actors :
           create_task_assignment(AssignmentDTO(t, a), u) /\ InRange
    \/ \E t \in TaskIds, data \in UpdateData, u \in Actors :
           update_task(t, data, u) /\ InRange
    \/ \E t \in TaskIds, data \in UpdateData, u \in Actors :
           update_task_with_assignee_from_dict(t, data, u) /\ InRange
    \/ \E t \in TaskIds, u \in Actors : delete_task(t, u)

\* the team collection in which tB is a deleted team
InitDeletedTeam == Init /\ teams.tB.is_deleted

Spec == InitDeletedTeam /\ [][Next]_vars

----------------------------------------------------------------------------
(* Assignment bookkeeping *)

\* C1: after any sequence of sequentially executed create_task,
\* create_task_assignment and update_task_with_assignee_from_dict calls (and
\* of update_task and delete_task calls as well) every task has at most one
\* assignment record with is_active = true.
C1_OneActiveAssignment ==
    \A t \in TaskIds : ActiveCount(assignments, t) <= 1

\* a create_task_assignment call has replaced the assignment of an already
\* assigned task: the old record is kept inactive next to the new active one
C1_Witness ==
    /\ resp.op = "create_task_assignment"
    /\ resp.err = "ok"
    /\ \E r \in BagToSet(assignments) : r.task_id = resp.task /\ ~r.is_active
    /\ ActiveCount(assignments, resp.task) = 1

\* the entries of the audit log that record the start or the end of a team
\* assignment of task t
TeamEntries(t) ==
    SelectSeq(audit, LAMBDA e : e.task_id = t
                  /\ e.action \in {"assigned_to_team", "unassigned_from_team"})

AssignedToTeam(t, tm) ==
    \E r \in BagToSet(assignments) :
        r.task_id = t /\ r.is_active /\ r.user_type = "team" /\ r.assignee_id = tm

LoggedAsAssignedTo(t, tm) ==
    LET es == TeamEntries(t)
    IN  /\ es # << >>
        /\ es[Len(es)].action = "assigned_to_team"
        /\ es[Len(es)].team_id = tm

\* C3: the audit trail stays consistent with the assignment record: a task
\* is actively assigned to team T exactly when the most recent team audit
\* entry for that task is 'assigned_to_team' for T.
C3_AuditMatchesAssignment ==
    \A t \in TaskIds, tm \in Teams : AssignedToTeam(t, tm) <=> LoggedAsAssignedTo(t, tm)

----------------------------------------------------------------------------
(* SpecInterleaved: create_task_assignment calls of concurrent requests.   *)
(* Each call is two steps, since the document store serialises single      *)
(* operations only: the validation with the get_by_task_id read, then the  *)
(* audit and assignment writes chosen on what was read.                    *)

Procs == 1..MaxPending

assignment_read(p, dto, u) ==
    LET chk == AssignmentCheck(tasks, dto)
    IN  /\ pend[p] = NoPending
        /\ IF chk # "ok"
           THEN /\ UNCHANGED pend
                /\ resp' = Resp("create_task_assignment", dto.task_id, u, chk)
           ELSE /\ \E existing \in ExistingAssignment(assignments, dto.task_id) :
                       pend' = [pend EXCEPT ![p] =
                                   [task_id |-> dto.task_id, assignee_id |-> dto.assignee_id,
                                    user_type |-> dto.user_type, team_id |-> dto.team_id,
                                    user |-> u, existing |-> existing]]
                /\ UNCHANGED resp
        /\ UNCHANGED <<tasks, assignments, audit, now, teams, txn, postgres_up>>
        /\ UNCHANGED <<counter, postgres>>

assignment_write(p) ==
    LET c == pend[p]
        dto == [task_id |-> c.task_id, assignee_id |-> c.assignee_id,
                user_type |-> c.user_type, team_id |-> c.team_id]
        o == AssignmentWrite(assignments, audit, dto, c.user, c.existing)
    IN  /\ c # NoPending
        /\ assignments' = o.assignments
        /\ audit' = o.audit
        /\ pend' = [pend EXCEPT ![p] = NoPending]
        /\ resp' = Resp("create_task_assignment", c.task_id, c.user, "ok")
        /\ UNCHANGED <<tasks, now, teams, txn, postgres_up>>
        /\ UNCHANGED <<counter, postgres>>

NextInterleaved ==
    \/ \E dto \in [status : {TODO}, createdBy : Actors, dueAt : {NoTime},
                   assignee : {NoAssignee, TeamAssignee("tA")}] :
           create_task(dto) /\ InRange
    \/ \E p \in Procs, t \in TaskIds, a \in SomeAssignees, u \in Actors :
           assignment_read(p, AssignmentDTO(t, a), u)
    \/ \E p \in Procs : assignment_write(p) /\ InRange

SpecInterleaved == InitDeletedTeam /\ [][NextInterleaved]_vars

\* C2: when two create_task_assignment calls for the same task are
\* interleaved, the task still ends (no call is between its read and its
\* write any more) with at most one active assignment record.
C2_OneActiveAfterInterleaving ==
    (\A p \in Procs : pend[p] = NoPending)
        => \A t \in TaskIds : ActiveCount(assignments, t) <= 1

----------------------------------------------------------------------------
(* SpecAccess: the operations guarded by the creator-or-assignee check,    *)
(* called by the creator and by another user                               *)

AccessData ==
    [status : {DONE},
     assignee : {NoAssignee, UserAssignee("u2", NoId), TeamAssignee("tA")}]

AccessTaskIds == 1..AccessTasks
InAccessRange == Within(AccessTasks, MaxAssignments, MaxAudit)

NextAccess ==
    \/ \E dto \in [status : {TODO}, createdBy : Users, dueAt : {NoTime},
                   assignee : {NoAssignee, UserAssignee("u2", NoId)}
                                  \cup {TeamAssignee(a) : a \in Teams}] :
           create_task(dto) /\ InAccessRange
    \/ \E t \in AccessTaskIds, data \in AccessData, u \in Users :
           update_task(t, data, u) /\ InAccessRange
    \/ \E t \in AccessTaskIds, data \in AccessData, u \in Users :
           update_task_with_assignee_from_dict(t, data, u) /\ InAccessRange
    \/ \E t \in AccessTaskIds, data \in AccessData, u \in Users :
           update_task_with_assignee(t, data, u) /\ InAccessRange
    \/ \E t \in AccessTaskIds, u \in Users : defer_task(t, Naive(MaxTime), u)
    \/ \E t \in AccessTaskIds, u \in Users : delete_task(t, u)

SpecAccess == Init /\ [][NextAccess]_vars

GuardedOps ==
    {"update_task", "update_task_with_assignee", "update_task_with_assignee_from_dict",
     "defer_task", "delete_task"}

\* u created task t, or is the user it is assigned to, or is the POC of the
\* live team it is assigned to and a member of that team
MayAccess(t, u) ==
    \/ tasks[t].createdBy = u
    \/ \E r \in BagToSet(assignments) :
          /\ r.task_id = t /\ r.is_active
          /\ \/ r.user_type = "user" /\ r.assignee_id = u
             \/ /\ r.user_type = "team" /\ r.assignee_id \in Teams
                /\ teams[r.assignee_id].poc_id = u
                /\ u \in teams[r.assignee_id].members
                /\ ~teams[r.assignee_id].is_deleted

\* the task of the call is found by the operation (delete_by_id looks for a
\* task that is not deleted yet)
Found(op, t) ==
    HasTask(tasks, t) /\ (op = "delete_task" => ~tasks[t].isDeleted)

\* C10: update_task, update_task_with_assignee,
\* update_task_with_assignee_from_dict, defer_task and delete_by_id succeed
\* only for the task's creator or a user for whom the task is among the
\* assigned ones (direct assignee or POC of the assigned team); for every
\* other user they raise PermissionError and leave the task record, the
\* assignment record and the audit log unchanged.
C10_AccessControl ==
    [][(resp'.op \in GuardedOps /\ Found(resp'.op, resp'.task))
          => IF MayAccess(resp'.task, resp'.user)
             THEN resp'.err # "PermissionError"
             ELSE resp'.err = "PermissionError" /\ UNCHANGED store]_vars

\* a member of the team the task is assigned to, who is not its POC and did
\* not create the task, has been refused
C10_Witness ==
    /\ resp.op \in GuardedOps
    /\ resp.err = "PermissionError"
    /\ tasks[resp.task].createdBy # resp.user
    /\ \E r \in get_by_task_id(assignments, resp.task) :
          /\ r.user_type = "team"
          /\ resp.user \in teams[r.assignee_id].members

\* C18: delete_by_id is a soft delete that succeeds at most once per task:
\* on a task that is not deleted it sets isDeleted, updatedBy and updatedAt
\* and deactivates the task's assignment (and it does succeed for a user who
\* may access the task); on a missing or already deleted task it raises
\* TaskNotFoundException and updates nothing, so a second delete after a
\* successful one changes nothing.
C18_SoftDeleteOnce ==
    [][resp'.op = "delete_task"
          => LET t == resp'.task
                 u == resp'.user
             IN  IF HasTask(tasks, t) /\ ~tasks[t].isDeleted
                 THEN /\ MayAccess(t, u) => resp'.err = "ok"
                      /\ resp'.err = "ok"
                            => /\ tasks' = [tasks EXCEPT ![t].isDeleted = TRUE,
                                                         ![t].updatedBy = u,
                                                         ![t].updatedAt = now]
                               /\ ActiveCount(assignments', t) = 0
                               /\ BagToSet(assignments') \ BagToSet(assignments)
                                     \subseteq {Deactivated(r) :
                                                  r \in get_by_task_id(assignments, t)}
                 ELSE /\ resp'.err = "TaskNotFoundException"
                      /\ UNCHANGED <<tasks, assignments, audit, postgres>>]_vars

\* the user who deleted an assigned task asks for its deletion again and is
\* told that there is no such task
C18_Witness ==
    /\ resp.op = "delete_task"
    /\ resp.err = "TaskNotFoundException"
    /\ HasTask(tasks, resp.task)
    /\ tasks[resp.task].isDeleted
    /\ tasks[resp.task].updatedBy = resp.user
    /\ \E r \in BagToSet(assignments) : r.task_id = resp.task /\ ~r.is_active

----------------------------------------------------------------------------
(* SpecAssignee: tasks are created and updated with assignees that exist   *)
(* and with assignees that do not                                          *)

\* assignees whose user or team does not exist
GhostAssignees == {UserAssignee(Ghost, NoId), TeamAssignee(Ghost)}

AssigneeData ==
    [status : {NoId, DONE},
     assignee : {UserAssignee("u2", NoId), TeamAssignee("tA")} \cup GhostAssignees]

AssigneeTaskIds == 1..AssigneeTasks
InAssigneeRange == Within(AssigneeTasks, MaxAssignments, MaxAudit)

NextAssignee ==
    \/ \E dto \in [status : {TODO}, createdBy : {"u1"}, dueAt : {NoTime},
                   assignee : {NoAssignee, UserAssignee("u2", "tA"),
                               UserAssignee("u2", Ghost)} \cup GhostAssignees] :
           create_task(dto) /\ InAssigneeRange
    \/ \E t \in AssigneeTaskIds, data \in AssigneeData, u \in Users :
           update_task(t, data, u) /\ InAssigneeRange
    \/ \E t \in AssigneeTaskIds, data \in AssigneeData, u \in Users :
           update_task_with_assignee_from_dict(t, data, u) /\ InAssigneeRange
    \/ \E t \in AssigneeTaskIds, data \in AssigneeData, u \in Users :
           update_task_with_assignee(t, data, u) /\ InAssigneeRange

SpecAssignee == Init /\ [][NextAssignee]_vars

\* the operations that validate the assignee of the request
AssigneeOps ==
    {"create_task", "update_task", "update_task_with_assignee",
     "update_task_with_assignee_from_dict"}

\* what the request's assignee must be answered with: its user, its team, or
\* (in create_task) the team_id of its user assignment does not exist
AssigneeFault(op, a) ==
    IF a = NoAssignee THEN "ok"
    ELSE IF a.user_type = "user" /\ a.assignee_id \notin Users
    THEN "UserNotFoundException"
    ELSE IF a.user_type = "team" /\ a.assignee_id \notin Teams THEN "ValueError"
    ELSE IF /\ op = "create_task" /\ a.user_type = "user"
            /\ a.team_id # NoId /\ a.team_id \notin Teams
    THEN "ValueError"
    ELSE "ok"

\* C19: the assignee is validated before any write: create_task, update_task,
\* update_task_with_assignee and update_task_with_assignee_from_dict given an
\* assignee whose user or team (or, in create_task, the team_id of a user
\* assignment) does not exist raise UserNotFoundException / ValueError and
\* leave the task collection, the assignment records and the display-id
\* counter unchanged (an update of a task the caller cannot find or may not
\* touch is refused for that reason, and writes nothing either).
C19_AssigneeValidatedFirst ==
    [][(resp'.op \in AssigneeOps /\ AssigneeFault(resp'.op, resp'.assignee) # "ok")
          => /\ UNCHANGED <<tasks, assignments, counter, audit, postgres>>
             /\ resp'.err # "ok"
             /\ (resp'.op = "create_task"
                    \/ (HasTask(tasks, resp'.task) /\ MayAccess(resp'.task, resp'.user)))
                   => resp'.err = AssigneeFault(resp'.op, resp'.assignee)]_vars

\* the creator of a task asked to hand it to a team that does not exist
C19_Witness ==
    /\ resp.op \in AssigneeOps \ {"create_task"}
    /\ resp.assignee = TeamAssignee(Ghost)
    /\ resp.err = "ValueError"
    /\ HasTask(tasks, resp.task)
    /\ tasks[resp.task].createdBy = resp.user

----------------------------------------------------------------------------
(* SpecList: a user creates tasks of different priorities and due dates,   *)
(* touches them as time passes, and the tasks are listed page by page      *)

ListTaskIds == 1..ListTasks
InListRange == Within(ListTasks, MaxAssignments, MaxAudit)
SortFields ==
    {SORT_FIELD_PRIORITY, SORT_FIELD_DUE_AT, SORT_FIELD_CREATED_AT,
     SORT_FIELD_UPDATED_AT, SORT_FIELD_ASSIGNEE}
SortOrders == {SORT_ORDER_ASC, SORT_ORDER_DESC}

\* the last call was a read
AfterRead == resp.op \in {"list_page", "get_tasks_page"}

\* the tasks asked to be created: an urgent one without a due date, or a
\* minor one that is due
ListTaskDTOs ==
    {[status |-> TODO, createdBy |-> "u1", dueAt |-> NoTime, assignee |-> NoAssignee,
      priority |-> HIGH],
     [status |-> TODO, createdBy |-> "u1", dueAt |-> MaxTime, assignee |-> NoAssignee,
      priority |-> LOW]}

NextList ==
    \/ \E dto \in ListTaskDTOs : create_task(dto) /\ InListRange
    \/ /\ HasTask(tasks, 1)
       /\ update_task(1, [status |-> IN_PROGRESS, assignee |-> NoAssignee], "u1")
       /\ InListRange
    \/ Tick
    \/ \E limit \in 1..MAX_LIMIT, sort_by \in SortFields, order \in SortOrders :
           ~AfterRead /\ TaskRepository_list_page(1, limit, sort_by, order, "u1", NoId, NoId)
    \/ /\ resp.op = "list_page"
       /\ resp.page < MaxPage
       /\ TaskRepository_list_page(resp.page + 1, resp.limit, resp.sort_by, resp.order,
                                   "u1", NoId, NoId)
    \/ \E page \in 0..MaxPage, limit \in 0..(MAX_LIMIT + 1),
          sort_by \in {SORT_FIELD_PRIORITY, SORT_FIELD_UPDATED_AT},
          order \in SortOrders, u \in Users :
           ~AfterRead /\ get_tasks_page(page, limit, sort_by, order, u, NoId, NoId)

SpecList == InitDeletedTeam /\ [][NextList]_vars

\* the link to page p that carries the parameters of the answered request
LinkTo(p) ==
    [page |-> p, limit |-> resp.limit, sort_by |-> resp.sort_by, order |-> resp.order]

\* C15: for a non-empty page get_tasks returns a next link iff
\* page < ceil(total_count / limit) and a prev link iff page > 1, total_count
\* being TaskRepository.count for the same user, team and status filter, and
\* both links carry the request's limit, sort_by and order; when the page
\* holds no tasks (also beyond the last page) tasks is empty and links is None.
C15_PaginationLinks ==
    (resp.op = "get_tasks_page" /\ resp.err = "ok")
       => LET total_count == count(tasks, assignments, now, resp.user, resp.team,
                                   resp.status, {})
              total_pages == Ceil(total_count, resp.limit)
          IN  IF resp.pages[resp.page] # << >>
              THEN /\ resp.links.present
                   /\ resp.links.next = IF resp.page < total_pages
                                        THEN LinkTo(resp.page + 1) ELSE NoLink
                   /\ resp.links.prev = IF resp.page > 1
                                        THEN LinkTo(resp.page - 1) ELSE NoLink
              ELSE resp.links = NoLinks

\* the last of several pages has been answered with a prev link and no next
\* link
C15_Witness ==
    /\ resp.op = "get_tasks_page"
    /\ resp.err = "ok"
    /\ resp.page = 2
    /\ resp.limit = 1
    /\ resp.total = 2
    /\ resp.pages[resp.page] # << >>
    /\ resp.links.next = NoLink
    /\ resp.links.prev = LinkTo(1)

\* the places (page, position) at which task t was handed out
Places(t) ==
    {pi \in (DOMAIN resp.pages) \X (1..MAX_LIMIT) :
        pi[2] \in DOMAIN resp.pages[pi[1]] /\ resp.pages[pi[1]][pi[2]] = t}

\* C16: with the store unchanged and filter, sort_by, order and limit fixed,
\* the pages 1..ceil(count / limit) of TaskRepository.list hold every
\* matching task exactly once, also when tasks have equal values of the sort
\* field.
C16_PagesPartition ==
    (/\ resp.op = "list_page"
     /\ resp.total > 0
     /\ DOMAIN resp.pages = 1..Ceil(resp.total, resp.limit))
       => \A t \in MatchingTasks(tasks, assignments, now, resp.user, resp.team,
                                 resp.status, {}) :
              Cardinality(Places(t)) = 1

\* document a may come before document b in a listing by sort_by and order
InOrder(sort_by, order, a, b) ==
    IF sort_by = SORT_FIELD_PRIORITY
    THEN IF order = SORT_ORDER_DESC
         THEN a.priority = HIGH \/ b.priority = LOW \/ a.priority = b.priority
         ELSE a.priority = LOW \/ b.priority = HIGH \/ a.priority = b.priority
    ELSE LET Value(d) ==
                 IF sort_by = SORT_FIELD_DUE_AT THEN d.dueAt
                 ELSE IF sort_by = SORT_FIELD_UPDATED_AT
                 THEN (IF d.updatedAt = NoTime THEN d.createdAt ELSE d.updatedAt)
                 ELSE d.createdAt
         IN  IF order = SORT_ORDER_DESC THEN Value(a) >= Value(b)
             ELSE Value(a) <= Value(b)

\* C17: TaskRepository.list sorts by priority with direction 1 for 'desc'
\* and -1 for 'asc', so that 'desc' yields HIGH, MEDIUM, LOW; by assignee it
\* sorts on createdAt, and on createdAt and dueAt on that field, with -1 for
\* 'desc' and 1 for 'asc'; by updatedAt it sorts on lastActivity, which is
\* updatedAt, or createdAt when the task was never updated.
C17_SortMapping ==
    resp.op = "list_page"
       => /\ resp.criteria.key =
                 (IF resp.sort_by = SORT_FIELD_UPDATED_AT THEN "lastActivity"
                  ELSE IF resp.sort_by = SORT_FIELD_ASSIGNEE THEN "createdAt"
                  ELSE resp.sort_by)
          /\ resp.criteria.direction =
                 (IF resp.sort_by = SORT_FIELD_PRIORITY
                  THEN (IF resp.order = SORT_ORDER_DESC THEN 1 ELSE -1)
                  ELSE (IF resp.order = SORT_ORDER_DESC THEN -1 ELSE 1))
          /\ \A p \in DOMAIN resp.pages :
                 \A i, j \in DOMAIN resp.pages[p] :
                     i < j => InOrder(resp.sort_by, resp.order,
                                      tasks[resp.pages[p][i]], tasks[resp.pages[p][j]])

\* a listing by priority, 'desc', hands out the urgent task that was created
\* last before the minor task that was created first
C17_Witness ==
    /\ resp.op = "list_page"
    /\ resp.sort_by = SORT_FIELD_PRIORITY
    /\ resp.order = SORT_ORDER_DESC
    /\ resp.page = 1
    /\ resp.pages[1] = <<2, 1>>
    /\ tasks[2].priority = HIGH
    /\ tasks[1].priority = LOW

----------------------------------------------------------------------------
(* SpecQuery: tasks are created, assigned, deferred and completed while    *)
(* time passes, and are read through the repository, the service and the   *)
(* view                                                                    *)

QueryTaskIds == 1..QueryTasks
InQueryRange == Within(QueryTasks, MaxAssignments, MaxAudit)
QueryUsers == {NoId} \cup Users
QueryTeams == {NoId} \cup Teams
QueryStatus == {NoId, TODO, DONE, DEFERRED}
QueryAssignees == {{}, {"u2"}}

\* list, count, get_tasks and the GET handler write nothing: a read that
\* directly follows a read finds the store the earlier read found, so the
\* reads are taken after a write or a tick
ReadOps == {"list", "get_tasks", "TaskListView_get"}
AfterWrite == resp.op \notin ReadOps

\* (the task is created before time passes)
NextQuery ==
    \/ \E dto \in [status : {TODO}, createdBy : Users, dueAt : {NoTime},
                   assignee : {NoAssignee} \cup SomeAssignees] :
           now = 1 /\ create_task(dto) /\ InQueryRange
    \/ \E t \in QueryTaskIds, u \in Users : defer_task(t, Naive(2), u)
    \/ \E t \in QueryTaskIds, u \in Users :
           update_task(t, [status |-> DONE, assignee |-> NoAssignee], u) /\ InQueryRange
    \/ Tick
    \/ \E u \in QueryUsers, tm \in QueryTeams, sf \in QueryStatus, aids \in QueryAssignees :
           AfterWrite /\ TaskRepository_list(u, tm, sf, aids)
    \/ \E u \in Users, tm \in QueryTeams, sf \in QueryStatus :
           AfterWrite /\ get_tasks(u, tm, sf)
    \/ \E u \in Users, tm \in QueryTeams, sf \in QueryStatus, aids \in QueryAssignees :
           AfterWrite /\ TaskListView_get(u, tm, sf, aids)

SpecQuery == Init /\ [][NextQuery]_vars

----------------------------------------------------------------------------
(* What the reads return *)

\* the deferral of task t has not run out yet
Unexpired(t) == tasks[t].deferredDetails.deferredTill > now

\* task t has an active assignment record satisfying P
HasActive(t, P(_)) ==
    \E r \in BagToSet(assignments) : r.task_id = t /\ r.is_active /\ P(r)

\* task t is within the user / team / assignee scope of a list or count call
InScope(t, u, tm, aids) ==
    IF aids # {}
    THEN /\ HasActive(t, LAMBDA r : /\ r.user_type = "user"
                                     /\ r.assignee_id \in aids
                                     /\ (tm # NoId => r.team_id = tm))
         /\ (tm = NoId /\ u # NoId) => MayAccess(t, u)
    ELSE IF tm # NoId
    THEN HasActive(t, LAMBDA r : r.team_id = tm)
    ELSE u # NoId => MayAccess(t, u)

\* C4: a task whose deferredTill is later than the current time is never
\* returned or counted by list / count called without a status filter, and
\* is matched under the DEFERRED filter (it is returned exactly when it is
\* within the scope of the other filters), whatever its status and whatever
\* the user, team and assignee filters.
C4_DeferredHidden ==
    resp.op = "list" =>
        \A t \in DOMAIN tasks :
            Unexpired(t) =>
                /\ resp.status = NoId =>
                       /\ t \notin resp.out
                       /\ resp.total <= Cardinality({x \in DOMAIN tasks : ~Unexpired(x)})
                /\ resp.status = DEFERRED =>
                       /\ t \in resp.out <=> InScope(t, resp.user, resp.team, resp.assignees)
                       /\ resp.total = Cardinality(resp.out)

\* a task with a running deferral, within the scope of the call, has been
\* left out by a list without status filter
C4_Witness ==
    /\ resp.op = "list"
    /\ resp.status = NoId
    /\ resp.out = {}
    /\ \E t \in DOMAIN tasks :
          /\ Unexpired(t) /\ tasks[t].status # DONE
          /\ InScope(t, resp.user, resp.team, resp.assignees)

\* C5: every task returned by TaskRepository.list with status_filter = S
\* has the stored status S (for S = DEFERRED: an unexpired deferral).
C5_StatusFilterSelectsStatus ==
    (resp.op = "list" /\ resp.status # NoId) =>
        \A t \in resp.out :
            IF resp.status = DEFERRED THEN Unexpired(t)
            ELSE tasks[t].status = resp.status

C7_NonMemberForbidden ==
    (resp.team # NoId /\ resp.user \notin teams[resp.team].members) =>
        /\ resp.op = "get_tasks" =>
               resp.err = "FORBIDDEN" /\ resp.out = {} /\ resp.calls = {}
        /\ (resp.op = "TaskListView_get" /\ resp.assignees = {}) =>
               resp.code = "403" /\ resp.out = {}

\* C8: list / count called with a team_id and no assignee_ids return
\* exactly the tasks passing the status filter that have an active
\* assignment record whose team_id is that team, whoever created them;
\* _get_assigned_task_ids_for_user is not consulted, and when the team has
\* no active assignment the result is empty and the tasks are not queried.
C8_TeamScope ==
    (resp.op = "list" /\ resp.team # NoId /\ resp.assignees = {}) =>
        /\ resp.out = {t \in DOMAIN tasks :
                          /\ _build_status_filter(resp.status, tasks[t], now)
                          /\ HasActive(t, LAMBDA r : r.team_id = resp.team)}
        /\ resp.total = Cardinality(resp.out)
        /\ "_get_assigned_task_ids_for_user" \notin resp.calls
        /\ (\A r \in BagToSet(assignments) : ~(r.is_active /\ r.team_id = resp.team))
               => resp.out = {} /\ "find" \notin resp.calls

\* a team-scoped list asked by a user has returned a task that this user
\* neither created nor is assigned to
C8_Witness ==
    /\ resp.op = "list" /\ resp.team # NoId /\ resp.assignees = {}
    /\ resp.user # NoId
    /\ \E t \in resp.out : ~MayAccess(t, resp.user)

\* C9: a GET /tasks request of a team member carrying teamId and assigneeId
\* values that are all members of the team is answered (HTTP 200) with
\* exactly the tasks passing the status filter that have an active user
\* assignment to one of those assignees within that team.
C9_AssigneeFilterReachesList ==
    (/\ resp.op = "TaskListView_get"
     /\ resp.team # NoId /\ resp.assignees # {}
     /\ resp.assignees \subseteq teams[resp.team].members
     /\ resp.user \in teams[resp.team].members) =>
        /\ resp.code = "200"
        /\ resp.out = {t \in DOMAIN tasks :
                          /\ _build_status_filter(resp.status, tasks[t], now)
                          /\ HasActive(t, LAMBDA r : /\ r.user_type = "user"
                                                      /\ r.assignee_id \in resp.assignees
                                                      /\ r.team_id = resp.team)}

----------------------------------------------------------------------------
(* SpecCreate: concurrent TaskRepository.create calls, the secondary store *)
(* being up or down                                                        *)

InCreateRange == Within(CreateTasks, MaxAssignments, MaxAudit)

NextCreate ==
    \/ \E p \in Procs, st \in {TODO, IN_PROGRESS}, u \in Users :
           create_begin(p, TaskModel(st, u))
    \/ \E p \in Procs : create_counter(p)
    \/ \E p \in Procs : create_commit(p) /\ InCreateRange
    \/ Outage

SpecCreate == InitDeletedTeam /\ [][NextCreate]_vars

\* C11: under any interleaving of concurrent TaskRepository.create calls,
\* the first ones included, no two persisted tasks share a displayId; the
\* first persisted task has '#1' and each later one the previous number
\* plus one.
C11_UniqueDisplayId ==
    /\ \A t1, t2 \in DOMAIN tasks :
           tasks[t1].displayId = tasks[t2].displayId => t1 = t2
    /\ \A t \in DOMAIN tasks : tasks[t].displayId = DisplayId(t)

\* a create call that ran concurrently with another one has been aborted,
\* after the first task was persisted with the new counter document
C11_Witness ==
    /\ resp.op = "TaskRepository_create" /\ resp.err = "ValueError"
    /\ DOMAIN tasks = {1}
    /\ counter = 1

----------------------------------------------------------------------------
(* SpecDualWrite: TaskRepository.create and TaskRepository.update while    *)
(* the secondary store goes down and comes back                            *)

NextDualWrite ==
    \/ \E st \in {TODO, IN_PROGRESS}, u \in Users : create_begin(1, TaskModel(st, u))
    \/ create_counter(1)
    \/ create_commit(1) /\ Within(DualWriteTasks, MaxAssignments, MaxAudit)
    \/ \E t \in 1..DualWriteTasks, st \in {IN_PROGRESS, DONE}, u \in Users :
           TaskRepository_update(t, st, u)
    \/ Tick
    \/ Outage

SpecDualWrite == InitDeletedTeam /\ [][NextDualWrite]_vars

\* C12: when the write to the secondary store fails, TaskRepository.create
\* and TaskRepository.update still complete and return the task, the
\* primary store holds what was written, and the secondary store is left as
\* it was.
C12_DualWriteBestEffort ==
    [][~postgres_up =>
          /\ (resp'.op = "TaskRepository_create" /\ resp' # resp) =>
                 /\ resp'.err = "ok"
                 /\ DOMAIN tasks' = DOMAIN tasks \cup {resp'.task}
                 /\ resp'.task \notin DOMAIN tasks
                 /\ postgres' = postgres
          /\ (resp'.op = "TaskRepository_update" /\ resp' # resp
                  /\ resp'.task \in DOMAIN tasks) =>
                 /\ resp'.err = "ok"
                 /\ tasks'[resp'.task].status = resp'.status
                 /\ tasks'[resp'.task].updatedBy = resp'.user
                 /\ tasks'[resp'.task].updatedAt = now
                 /\ postgres' = postgres]_vars

\* a task created while the secondary store was down has been updated while
\* it was still down: the primary store holds it, the secondary does not
C12_Witness ==
    /\ ~postgres_up
    /\ resp.op = "TaskRepository_update" /\ resp.err = "ok"
    /\ tasks[resp.task].status = resp.status
    /\ resp.task \notin DOMAIN postgres

----------------------------------------------------------------------------
(* SpecDefer: a task with or without a due date is created, started,       *)
(* completed and deferred, by its creator and by another user, while time  *)
(* passes                                                                  *)

DeferTaskIds == 1..DeferTasks
InDeferRange == Within(DeferTasks, MaxAssignments, MaxAudit)

\* the deferredTill values of the requests: UTC instants 2 and 3, given
\* without tzinfo and in a zone one hour ahead of UTC
DeferTimes == {Naive(2), Naive(3), Aware(3, 1), Aware(4, 1)}

NextDefer ==
    \/ \E dto \in [status : {TODO, IN_PROGRESS}, createdBy : {"u1"}, dueAt : {NoTime, 3},
                   assignee : {NoAssignee, TeamAssignee("tA")}] :
           create_task(dto) /\ InDeferRange
    \/ \E t \in DeferTaskIds, u \in Users :
           update_task(t, [status |-> DONE, assignee |-> NoAssignee], u) /\ InDeferRange
    \/ \E t \in DeferTaskIds, dt \in DeferTimes, u \in Users : defer_task(t, dt, u)
    \/ Tick

SpecDefer == InitDeletedTeam /\ [][NextDefer]_vars

\* C13: defer_task on a task whose status is DONE raises
\* TaskStateConflictException (PermissionError for a user who may not touch
\* the task) and updates nothing, in neither store.
C13_DoneNotDeferred ==
    [][(/\ resp'.op = "defer_task"
        /\ HasTask(tasks, resp'.task)
        /\ tasks[resp'.task].status = DONE) =>
          /\ resp'.err = IF MayAccess(resp'.task, resp'.user)
                          THEN "TaskStateConflictException" ELSE "PermissionError"
          /\ UNCHANGED <<tasks, assignments, audit, postgres>>]_vars

\* the creator has tried to defer their completed task
C13_Witness ==
    /\ resp.op = "defer_task"
    /\ resp.err = "TaskStateConflictException"
    /\ tasks[resp.task].status = DONE
    /\ tasks[resp.task].createdBy = resp.user

\* the UTC instant of the deferredTill of the last request
TillInstant(r) == IF r.till.aware THEN r.till.wall - r.till.offset ELSE r.till.wall

\* C14: defer_task, for a task that is not DONE and a user who may touch
\* it, rejects a deferredTill at or after the dueAt of the task (compared as
\* UTC instants, a naive value being UTC) with UnprocessableEntityException
\* and no update; without dueAt, or with a deferredTill before it, the
\* deferral is stored, so a stored deferredTill is before the dueAt.
C14_DeferBeforeDue ==
    [][(/\ resp'.op = "defer_task"
        /\ HasTask(tasks, resp'.task)
        /\ MayAccess(resp'.task, resp'.user)
        /\ tasks[resp'.task].status # DONE) =>
          IF /\ tasks[resp'.task].dueAt # NoTime
             /\ TillInstant(resp') >= tasks[resp'.task].dueAt
          THEN /\ resp'.err = "UnprocessableEntityException"
               /\ UNCHANGED <<tasks, assignments, audit, postgres>>
          ELSE /\ resp'.err = "ok"
               /\ tasks'[resp'.task].deferredDetails.deferredTill = TillInstant(resp')
               /\ tasks[resp'.task].dueAt # NoTime =>
                      tasks'[resp'.task].deferredDetails.deferredTill
                          < tasks'[resp'.task].dueAt]_vars

\* a deferredTill whose wall-clock value equals the dueAt but which lies
\* before it as an instant has been accepted
C14_Witness ==
    /\ resp.op = "defer_task" /\ resp.err = "ok"
    /\ resp.till.aware
    /\ resp.till.wall = tasks[resp.task].dueAt
    /\ tasks[resp.task].deferredDetails.deferredTill < tasks[resp.task].dueAt

\* C20: a successful defer_task writes status = TODO, deferredDetails =
\* {deferredAt: now, deferredTill: the requested time, deferredBy: the
\* caller}, updatedBy = the caller and updatedAt, and nothing else: the
\* other fields of the task, the other tasks, the assignments, the audit
\* log and the display-id counter are unchanged.
C20_DeferWritesOnly ==
    [][(resp'.op = "defer_task" /\ resp'.err = "ok") =>
          /\ tasks' = [tasks EXCEPT ![resp'.task] =
                 [@ EXCEPT !.status = TODO,
                           !.deferredDetails = [deferredAt |-> now,
                                                deferredTill |-> TillInstant(resp'),
                                                deferredBy |-> resp'.user],
                           !.updatedBy = resp'.user,
                           !.updatedAt = now]]
          /\ UNCHANGED <<assignments, audit, counter>>]_vars

\* a started task with a due date, assigned to a team, has been deferred:
\* it is TODO again and keeps its startedAt, dueAt and assignment
C20_Witness ==
    /\ resp.op = "defer_task" /\ resp.err = "ok"
    /\ tasks[resp.task].status = TODO
    /\ tasks[resp.task].startedAt # NoTime
    /\ tasks[resp.task].dueAt # NoTime
    /\ ActiveCount(assignments, resp.task) = 1

----------------------------------------------------------------------------
(* SpecStatus: the creator of a task starts, defers, touches and completes *)
(* it through the update operations, while time passes                     *)

StatusTaskIds == 1..StatusTasks
InStatusRange == Within(StatusTasks, MaxAssignments, MaxAudit)

\* the status of an update request (none, or one of the four names)
RequestStatus == {NoId} \cup TaskStatus

NextStatus ==
    \/ \E st \in {TODO, IN_PROGRESS} :
           create_task([status |-> st, createdBy |-> "u1", dueAt |-> NoTime,
                        assignee |-> NoAssignee]) /\ InStatusRange
    \/ \E t \in StatusTaskIds, st \in {IN_PROGRESS, DONE} :
           update_task(t, [status |-> st, assignee |-> NoAssignee], "u1")
               /\ InStatusRange
    \/ \E t \in StatusTaskIds, st \in RequestStatus :
           update_task_with_assignee_from_dict(
               t, [status |-> st, assignee |-> NoAssignee], "u1")
    \/ \E t \in StatusTaskIds, st \in {NoId, TODO, IN_PROGRESS} :
           update_task_with_assignee(t, [status |-> st, assignee |-> NoAssignee], "u1")
    \/ \E t \in StatusTaskIds, dt \in {Naive(2), Naive(3)} : defer_task(t, dt, "u1")
    \/ Tick

SpecStatus == InitDeletedTeam /\ [][NextStatus]_vars

\* C21: update_task_with_assignee_from_dict ends a deferral on any explicit
\* status change: a status in the payload other than DEFERRED sets the
\* deferredDetails of a deferred task to None, also when it is the task's
\* current status, and the task (unless it is completed by the call) is
\* matched by the default view again; the status DEFERRED keeps the stored
\* status and does not touch deferredDetails.
C21_StatusEndsDeferral ==
    [][(resp'.op = "update_task_with_assignee_from_dict" /\ resp'.err = "ok")
          => LET t == resp'.task
                 st == resp'.request
             IN  /\ (st \notin {NoId, DEFERRED} /\ tasks[t].deferredDetails # NoDeferral)
                       => /\ tasks'[t].deferredDetails = NoDeferral
                          /\ tasks'[t].status # DONE
                                => _build_status_filter(NoId, tasks'[t], now')
                 /\ st = DEFERRED
                       => /\ tasks'[t].status = tasks[t].status
                          /\ tasks'[t].deferredDetails = tasks[t].deferredDetails]_vars

\* a task whose deferral had not run out was sent its own status, and is no
\* longer deferred
C21_Witness ==
    /\ resp.op = "update_task_with_assignee_from_dict"
    /\ resp.err = "ok"
    /\ resp.request = resp.before.status
    /\ resp.before.deferredDetails # NoDeferral
    /\ resp.before.deferredDetails.deferredTill > now
    /\ tasks[resp.task].deferredDetails = NoDeferral
    /\ _build_status_filter(NoId, tasks[resp.task], now)

\* C22: create_task sets startedAt iff the initial status is IN_PROGRESS;
\* update_task_with_assignee and update_task_with_assignee_from_dict set
\* startedAt to the current time when the requested status is IN_PROGRESS and
\* the task has no startedAt, and a request for IN_PROGRESS on a task that
\* has a startedAt leaves it as it is.
C22_StartedAtOnce ==
    [][/\ (resp'.op = "create_task" /\ resp'.err = "ok")
            => tasks'[resp'.task].startedAt =
                   (IF tasks'[resp'.task].status = IN_PROGRESS THEN now ELSE NoTime)
       /\ (/\ resp'.op \in {"update_task_with_assignee",
                            "update_task_with_assignee_from_dict"}
           /\ resp'.err = "ok"
           /\ resp'.request = IN_PROGRESS)
            => tasks'[resp'.task].startedAt =
                   (IF tasks[resp'.task].startedAt = NoTime THEN now
                    ELSE tasks[resp'.task].startedAt)]_vars

\* a task that was started earlier has been asked to be IN_PROGRESS again
\* and has kept its startedAt
C22_Witness ==
    /\ resp.op \in {"update_task_with_assignee", "update_task_with_assignee_from_dict"}
    /\ resp.err = "ok"
    /\ resp.request = IN_PROGRESS
    /\ resp.before.startedAt # NoTime
    /\ resp.before.startedAt < now
    /\ resp.before.status # IN_PROGRESS
    /\ tasks[resp.task].startedAt = resp.before.startedAt

\* C23: at every instant, also the instant of its deferredTill, a task whose
\* stored status is not DONE is matched by exactly one of the default filter
\* and the DEFERRED filter of _build_status_filter.
C23_ViewsPartition ==
    \A t \in DOMAIN tasks :
        tasks[t].status # DONE
            => (_build_status_filter(NoId, tasks[t], now)
                    <=> ~_build_status_filter(DEFERRED, tasks[t], now))

\* C27: no task has the stored status DONE together with deferredDetails
\* whose deferredTill is in the future.
C27_DoneNeverDeferred ==
    \A t \in DOMAIN tasks :
        ~(/\ tasks[t].status = DONE
          /\ tasks[t].deferredDetails # NoDeferral
          /\ tasks[t].deferredDetails.deferredTill > now)

----------------------------------------------------------------------------
(* Deleted tasks, under SpecAccess *)

\* TaskService.get_task_by_id
get_task_by_id(tk, t) ==
    IF get_by_id(tk, t) = {} THEN "TaskNotFoundException" ELSE "ok"

\* C24: once delete_task has succeeded for a task, the task is gone for every
\* later operation: it is not among the tasks get_tasks returns and count
\* counts for its creator, get_task_by_id raises TaskNotFoundException, and
\* update_task, update_task_with_assignee_from_dict and defer_task raise
\* TaskNotFoundException without modifying it.
C24_DeletedIsGone ==
    [][/\ \A t \in DOMAIN tasks :
              tasks[t].isDeleted
                  => /\ t \notin MatchingTasks(tasks, assignments, now,
                                               tasks[t].createdBy, NoId, NoId, {})
                     /\ get_task_by_id(tasks, t) = "TaskNotFoundException"
       /\ (/\ resp'.op \in {"update_task", "update_task_with_assignee_from_dict",
                            "defer_task"}
           /\ HasTask(tasks, resp'.task)
           /\ tasks[resp'.task].isDeleted)
              => /\ resp'.err = "TaskNotFoundException"
                 /\ tasks' = tasks]_vars

\* C25: no task with isDeleted = true has an active assignment record.
C25_DeletedUnassigned ==
    \A t \in DOMAIN tasks : tasks[t].isDeleted => ActiveCount(assignments, t) = 0

----------------------------------------------------------------------------
(* SpecAudit: the creator of a task changes its status and its assignee    *)
(* through update_task while time passes; another client of the store may  *)
(* remove the document during a call                                       *)

AuditTaskIds == 1..AuditTasks
InAuditRange == Within(AuditTasks, MaxAssignments, MaxAudit)

\* (no more than AuditTasks tasks are ever created)
NextAudit ==
    \/ \E st \in {TODO, IN_PROGRESS} :
           /\ counter < AuditTasks
           /\ create_task([status |-> st, createdBy |-> "u1", dueAt |-> NoTime,
                           assignee |-> NoAssignee])
           /\ InAuditRange
    \/ \E t \in AuditTaskIds, st \in {NoId, TODO, DONE},
          a \in {NoAssignee, UserAssignee("u2", NoId)}, updated \in BOOLEAN :
           update_task_call(t, [status |-> st, assignee |-> a], "u1", updated)
               /\ InAuditRange
    \/ Tick

SpecAudit == InitDeletedTeam /\ [][NextAudit]_vars

\* C26: update_task writes a 'status_changed' entry only when the call has
\* changed the stored status of the task from status_from to status_to: none
\* when TaskRepository.update returns None and the call ends with
\* TaskNotFoundException, and none when the requested status is the old one.
C26_AuditOnlyOnChange ==
    [][(resp'.op = "update_task" /\ audit' # audit)
          => LET t == resp'.task
             IN  /\ resp'.err = "ok"
                 /\ HasTask(tasks, t) /\ HasTask(tasks', t)
                 /\ tasks'[t].status # tasks[t].status
                 /\ audit' = Append(audit, StatusChanged(t, tasks[t].status,
                                                         tasks'[t].status, resp'.user))]_vars

----------------------------------------------------------------------------
(* SpecCreateTask: tasks are asked to be created with and without an       *)
(* assignee, also with an assignee that does not exist or whose user_type  *)
(* is neither 'user' nor 'team', while time passes                         *)

InCreateTaskRange == Within(CreateTaskTasks, MaxAssignments, MaxAudit)

\* an assignee dictionary with a user_type the service does not know
OtherAssignee == [assignee_id |-> "u2", user_type |-> "group", team_id |-> NoId]

NextCreateTask ==
    \/ \E dto \in [status : {TODO, IN_PROGRESS}, createdBy : Users, dueAt : {NoTime},
                   assignee : {NoAssignee, UserAssignee("u2", "tA"), TeamAssignee(Ghost),
                               OtherAssignee}] :
           create_task(dto) /\ InCreateTaskRange
    \/ Tick

SpecCreateTask == InitDeletedTeam /\ [][NextCreateTask]_vars

----------------------------------------------------------------------------
(* The secondary store, under SpecAccess, in which no write to it fails *)

\* the fields of a task that its row in the relational store mirrors
MirroredFields ==
    {"status", "priority", "isDeleted", "dueAt", "startedAt", "updatedAt", "updatedBy"}

\* C29: when no write to the secondary store fails, after every completed
\* TaskRepository.create, update and delete_by_id the row of each task in the
\* relational store has the status, priority, isDeleted, dueAt, startedAt,
\* updatedAt and updatedBy of its document in the primary store, and the
\* secondary store holds no task that the primary store lacks.
C29_SecondaryTracksPrimary ==
    /\ DOMAIN postgres \subseteq DOMAIN tasks
    /\ \A t \in DOMAIN tasks :
          /\ t \in DOMAIN postgres
          /\ \A f \in MirroredFields : postgres[t].data[f] = tasks[t][f]

----------------------------------------------------------------------------
(* SpecUpdate: TaskRepository.update is called with ids of stored tasks,   *)
(* of no task and of no possible task, and with dictionaries that do and   *)
(* do not carry "_id", "id" and "updatedAt", while time passes             *)

InUpdateRange == Within(UpdateTasks, MaxAssignments, MaxAudit)

UpdateDicts ==
    {NoData,
     Field("status", DONE),
     Field("_id", 2),
     Field("id", 2) @@ Field("status", IN_PROGRESS),
     Field("updatedAt", NoTime) @@ Field("updatedBy", "u2")}

NextUpdate ==
    \/ \E st \in {TODO, IN_PROGRESS} :
           create_task([status |-> st, createdBy |-> "u1", dueAt |-> NoTime,
                        assignee |-> NoAssignee]) /\ InUpdateRange
    \/ \E task_id \in (1..(UpdateTasks + 1)) \cup {BadId},
          update_data \in {Dict(d) : d \in UpdateDicts} \cup {NotADict} :
           TaskRepository_update_data(task_id, update_data)
    \/ Tick

SpecUpdate == InitDeletedTeam /\ [][NextUpdate]_vars

\* C30: TaskRepository.update never changes the identity of a task and always
\* stamps the change: the $set payload it writes holds updatedAt (the current
\* time) and never "_id" or "id", and for an empty dictionary nothing but
\* updatedAt; an unparsable task id returns None and an update_data that is
\* no dictionary raises ValueError, both without a write to either store.
C30_UpdateStampsAndKeepsId ==
    [][resp'.op = "TaskRepository_update_data"
          => LET t == resp'.task
                 payload == resp'.payload
             IN  IF ~resp'.update_data.dict
                 THEN resp'.err = "ValueError" /\ UNCHANGED <<tasks, postgres>>
                 ELSE IF t = BadId
                 THEN resp'.err = "None" /\ UNCHANGED <<tasks, postgres>>
                 ELSE resp'.err = "ok"
                         => /\ "updatedAt" \in DOMAIN payload
                            /\ payload["updatedAt"] = now
                            /\ DOMAIN payload \cap {"_id", "id"} = {}
                            /\ resp'.update_data.data = NoData
                                  => DOMAIN payload = {"updatedAt"}
                            /\ tasks' = [tasks EXCEPT ![t] = ApplySet(tasks[t], payload)]
                            /\ DOMAIN tasks' = DOMAIN tasks]_vars

\* a task was updated with a dictionary that carries an "id", and has been
\* stamped
C30_Witness ==
    /\ resp.op = "TaskRepository_update_data"
    /\ resp.err = "ok"
    /\ "id" \in DOMAIN resp.update_data.data
    /\ "id" \notin DOMAIN resp.payload
    /\ now > 1
    /\ tasks[resp.task].updatedAt = now
    /\ tasks[resp.task].status = IN_PROGRESS

====
